---- MODULE Spec2Model ----
(***************************************************************************)
(* AreaVue: geodetic primitives, the staking session and the point         *)
(* sequence.                                                               *)
(*                                                                         *)
(* Numbers.  The program computes on IEEE doubles; the model computes on   *)
(* integers.  Coordinates are non-negative integers in fixed-point units,  *)
(* angles are whole degrees, distances are whole units.  The spherical     *)
(* formulas are evaluated on the local tangent plane (north = +lat,        *)
(* east = +lng) with an integer arctangent and an integer square root.     *)
(* Three values that are not numbers of the domain are kept apart from it: *)
(* NaN, null and undefined.                                                *)
(*                                                                         *)
(* Two applications live in the sources: the App component kept in         *)
(* services/geminiService.ts (staking session with currentBearing,         *)
(* strict gate and baseline snapping) and the App component of App.tsx     *)
(* (staking session with targetBearing, StakingControls).  Each has its    *)
(* own variables and its own specifications:                               *)
(*   Spec          geminiService.ts App, staking a line: adding, moving    *)
(*                 and deleting points, the staking toggle, the strict     *)
(*                 gate and corner turns;                                  *)
(*   SpecBaseline  geminiService.ts App, intermediate staking: adding and  *)
(*                 deleting points, the staking toggle, marker selection   *)
(*                 and the baseline Clear button;                          *)
(*   SpecApp       App.tsx with StakingControls;                           *)
(*   SpecGps       geminiService.ts App, GPS averaging: the sample window  *)
(*                 and the point made of it;                               *)
(*   SpecGpsTimer  geminiService.ts App, the averaging window second by    *)
(*                 second, with the timeout and the renders made fairly;   *)
(*   SpecSurveys   App.tsx, the points of the surveys: adding them through *)
(*                 the refs, deleting and restoring them;                  *)
(*   SpecSurveyList  App.tsx, the list of surveys: creating, deleting,     *)
(*                 selecting and importing them;                           *)
(*   SpecFn        calculateCollinearity applied to bearings;              *)
(*   SpecGeo       the functions of geoService.ts applied to positions and *)
(*                 point lists.                                            *)
(* Spec and SpecBaseline run the same handlers on the same variables; they *)
(* differ in which of the user's controls are exercised.                   *)
(***************************************************************************)
EXTENDS Integers, Sequences, FiniteSets, TLC

VARIABLES
    points,       \* geminiService.ts App: currentSurvey.points
    staking,      \* geminiService.ts App: the StakingState held in `staking`
    nextId,       \* number of ids handed out by uuidv4 so far
    signal,       \* what the last handler showed the user: "none" or "alert"
    surveyPoints, \* App.tsx: the points of the current survey
    stakingState, \* App.tsx: the StakingState held in `stakingState`
    appNextId,    \* App.tsx: number of ids handed out by generateUUID so far
    fn,           \* SpecFn, SpecGeo: the function applied last, its arguments and result
    gpsAveraging, \* geminiService.ts App: the averaging window (active, timeLeft, samples)
    gpsEffects,   \* geminiService.ts App: what the tracking and timer effects last ran with
    surveys,          \* App.tsx: the survey list held in `surveys`
    currentSurveyId,  \* App.tsx: id of the current survey, or null
    surveyRef,        \* App.tsx: surveyRef.current, the survey the handlers read
    allSurveysRef,    \* App.tsx: allSurveysRef.current
    syncPending,      \* App.tsx: the Sync Refs effect is scheduled and has not run
    activePointId,    \* App.tsx: id of the selected point, or null
    deletionHistory,  \* App.tsx: what Undo restores, or null
    surveyToDelete,   \* App.tsx: the survey the Delete Survey modal asks about, or null
    importConflict    \* App.tsx: what the Import Conflict modal asks about, or null

legacyVars == <<points, staking, nextId, signal>>
surveyVars == <<surveys, currentSurveyId, surveyRef, allSurveysRef, syncPending,
                activePointId, deletionHistory, surveyToDelete, importConflict>>
appVars == <<surveyPoints, stakingState, appNextId, surveyVars>>
vars == <<points, staking, nextId, signal, surveyPoints, stakingState, appNextId, fn,
          gpsAveraging, gpsEffects, surveys, currentSurveyId, surveyRef, allSurveysRef, syncPending,
          activePointId, deletionHistory, surveyToDelete, importConflict>>

-----------------------------------------------------------------------------
(* Values outside the numeric domain *)

NaN == -3
Null == -1
Undefined == -2

isNaN(x) == x = NaN

-----------------------------------------------------------------------------
(* Bounds *)

MaxAdds == 3

\* Positions a fix, a map click or a drag can deliver: <<lat, lng>>.
Fixes == { <<0, 0>>, <<0, 2>>, <<2, 2>> }

\* Positions a marker is dragged to.
Drops == { <<0, 2>> }

\* Values typed into the turn-angle input.
TurnAngles == { -90, 90, 450 }

-----------------------------------------------------------------------------
(* Integer helpers standing for Math.* on doubles *)

Abs(x) == IF x < 0 THEN -x ELSE x

\* JavaScript %: the remainder takes the sign of the dividend.
JsRem(a, n) == IF a >= 0 THEN a % n ELSE -((-a) % n)

\* n / m rounded to the nearest integer, m > 0.
RoundDiv(n, m) == (2 * n + m) \div (2 * m)

\* Math.sqrt, rounded down.
Sqrt(s) == CHOOSE r \in 0..(s + 1) : r * r <= s /\ (r + 1) * (r + 1) > s

\* arctangent of a/b in degrees for 0 <= a <= b, b > 0
\* (45x + 15.64 x (1 - x), exact at x = 0 and x = 1).
AtanDeg(a, b) == RoundDiv(4500 * a * b + 1564 * a * (b - a), 100 * b * b)

\* Math.atan2(y, x) * 180 / PI, as a compass angle in (-180, 180].
Atan2Deg(y, x) ==
    LET a == Abs(y)
        b == Abs(x)
        phi == IF a = 0 /\ b = 0 THEN 0
               ELSE IF a <= b THEN AtanDeg(a, b) ELSE 90 - AtanDeg(b, a)
    IN  IF x >= 0 THEN (IF y >= 0 THEN phi ELSE -phi)
        ELSE (IF y >= 0 THEN 180 - phi ELSE phi - 180)

-----------------------------------------------------------------------------
(* services/geoService.ts *)

\* 100 * cos of a latitude in degrees, to the grid (100 up to 2 degrees,
\* 50 at 60 degrees).
CosCenti(lat) == RoundDiv(100 * (32400 - 4 * lat * lat), 32400 + lat * lat)

\* The haversine distance at the scale of the grid: the east-west part
\* shrinks with cos(lat1) * cos(lat2), and `a` is clamped at 0.
calculateDistance(lat1, lon1, lat2, lon2) ==
    IF isNaN(lat1) \/ isNaN(lon1) \/ isNaN(lat2) \/ isNaN(lon2) THEN 0
    ELSE LET a == (lat2 - lat1) * (lat2 - lat1)
                  + RoundDiv(CosCenti(lat1) * CosCenti(lat2) * (lon2 - lon1) * (lon2 - lon1),
                             10000)
         IN  Sqrt(IF a < 0 THEN 0 ELSE a)

calculateBearing(lat1, lon1, lat2, lon2) ==
    IF isNaN(lat1) \/ isNaN(lon1) \/ isNaN(lat2) \/ isNaN(lon2) THEN 0
    ELSE JsRem(Atan2Deg(lon2 - lon1, lat2 - lat1) + 360, 360)

normalizeAngleNoWrap(angle) ==
    IF isNaN(angle) THEN 0 ELSE JsRem(angle, 360)

normalizeAngle(angle) ==
    IF isNaN(angle) THEN 0 ELSE JsRem(JsRem(angle, 360) + 360, 360)

\* Fractional angles are counted in eighths of a degree.
UnitsPerDegree == 8

\* The sum of two doubles is rounded to the spacing of the doubles around
\* it, which doubles at every power of two.  With a significand cut down to
\* 11 bits that spacing is 1/8 degree below 128 degrees, 1/4 below 256, 1/2
\* below 512 and 1 below 1024; v >= 0 is in eighths, ties go to the even
\* multiple.
Spacing(v) ==
    IF v < 128 * UnitsPerDegree THEN 1
    ELSE IF v < 256 * UnitsPerDegree THEN 2
    ELSE IF v < 512 * UnitsPerDegree THEN 4
    ELSE 8

RoundToDouble(v) ==
    LET s == Spacing(v)
        q == v \div s
        r == v - q * s
    IN  IF 2 * r < s THEN q * s
        ELSE IF 2 * r > s THEN (q + 1) * s
        ELSE IF q % 2 = 0 THEN q * s ELSE (q + 1) * s

\* normalizeAngle on fractional angles: % is exact, + is rounded.
normalizeAngleRounded(angle) ==
    IF isNaN(angle) THEN 0
    ELSE JsRem(RoundToDouble(JsRem(angle, 360 * UnitsPerDegree) + 360 * UnitsPerDegree),
               360 * UnitsPerDegree)

\* while (diff > 180) diff -= 360; while (diff < -180) diff += 360;
RECURSIVE WrapDiff(_)
WrapDiff(diff) ==
    IF diff > 180 THEN WrapDiff(diff - 360)
    ELSE IF diff < -180 THEN WrapDiff(diff + 360)
    ELSE diff

\* Lines 159-168 of calculateCollinearity: the wrapped difference, its
\* magnitude and its side.
CollinearityOf(actualBearing, targetBearing) ==
    LET diff == WrapDiff(actualBearing - targetBearing)
    IN  [error |-> Abs(diff),
         direction |-> IF diff > 0 THEN "Right" ELSE "Left"]

calculateCollinearity(startLat, startLng, targetBearing, currentLat, currentLng) ==
    IF isNaN(startLat) \/ isNaN(startLng) \/ isNaN(currentLat) \/ isNaN(currentLng)
       \/ isNaN(targetBearing)
    THEN [error |-> 0, direction |-> "Right"]
    ELSE CollinearityOf(calculateBearing(startLat, startLng, currentLat, currentLng),
                        targetBearing)

\* f[1] + ... + f[n].
RECURSIVE SumTo(_, _)
SumTo(f, n) == IF n = 0 THEN 0 ELSE f[n] + SumTo(f, n - 1)

\* The points calculateArea and calculatePerimeter keep.
validPoints(pts) == SelectSeq(pts, LAMBDA p : ~isNaN(p.lat) /\ ~isNaN(p.lng))

\* latLngToUtm with the global proj4: absent, or present and failing (by a
\* NaN result or by throwing) on the positions proj4.fails. A projected
\* position is a false easting plus the grid position.
latLngToUtm(lat, lng, proj4) ==
    IF isNaN(lat) \/ isNaN(lng)
    THEN [easting |-> 0, northing |-> 0, zone |-> 0, hemi |-> "N"]
    ELSE IF ~proj4.defined
    THEN [easting |-> lng * 111320, northing |-> lat * 110574, zone |-> 0,
          hemi |-> IF lat >= 0 THEN "N" ELSE "S"]
    ELSE LET zoneNum == ((lng + 180) \div 6) + 1
             hemi == IF lat >= 0 THEN "N" ELSE "S"
         IN  IF <<lat, lng>> \in proj4.fails
             THEN IF proj4.mode = "NaN"
                  THEN [easting |-> 0, northing |-> 0, zone |-> zoneNum, hemi |-> hemi]
                  ELSE [easting |-> 0, northing |-> 0, zone |-> 0, hemi |-> hemi]
             ELSE [easting |-> 500 + lng, northing |-> lat, zone |-> zoneNum, hemi |-> hemi]

\* The shoelace sum over coordinate sequences x and y of length n.
Shoelace(x, y, n) ==
    SumTo([i \in 1..n |-> x[i] * y[(i % n) + 1] - x[(i % n) + 1] * y[i]], n)

\* Lines 80-93 of calculateArea: the local plane around the first valid point.
AreaFallback(valid) ==
    LET n == Len(valid)
        origin == valid[1]
        x == [i \in 1..n |->
                calculateDistance(origin.lat, origin.lng, origin.lat, valid[i].lng)
                   * (IF valid[i].lng > origin.lng THEN 1 ELSE -1)]
        y == [i \in 1..n |->
                calculateDistance(origin.lat, origin.lng, valid[i].lat, origin.lng)
                   * (IF valid[i].lat > origin.lat THEN 1 ELSE -1)]
    IN  Abs(Shoelace(x, y, n)) \div 2

\* Lines 63-74 of calculateArea: latLngToUtm catches its own failures, so
\* the catch of calculateArea is never entered.
AreaUtm(valid, proj4) ==
    LET n == Len(valid)
        utmPoints == [i \in 1..n |-> latLngToUtm(valid[i].lat, valid[i].lng, proj4)]
    IN  Abs(Shoelace([i \in 1..n |-> utmPoints[i].easting],
                     [i \in 1..n |-> utmPoints[i].northing], n)) \div 2

calculateArea(pts, proj4) ==
    IF Len(pts) < 3 THEN 0
    ELSE IF Len(validPoints(pts)) < 3 THEN 0
    ELSE IF proj4.defined THEN AreaUtm(validPoints(pts), proj4)
    ELSE AreaFallback(validPoints(pts))

calculatePerimeter(pts) ==
    LET valid == validPoints(pts)
        n == Len(valid)
    IN  IF n < 2 THEN 0
        ELSE SumTo([i \in 1..(n - 1) |->
                      calculateDistance(valid[i].lat, valid[i].lng,
                                        valid[i + 1].lat, valid[i + 1].lng)], n - 1)
             + (IF n > 2
                THEN calculateDistance(valid[n].lat, valid[n].lng, valid[1].lat, valid[1].lng)
                ELSE 0)

\* 1000 * sin of a whole angle of 0..180 degrees, to the grid.
SinMilli(deg) == (4000 * deg * (180 - deg)) \div (40500 - deg * (180 - deg))

\* The sign of Math.sin(diff * (Math.PI / 180)) for diff in [-180, 180]:
\* 180 * (Math.PI / 180) is Math.PI, whose sine is 1.2246e-16 in IEEE
\* doubles, so the sign is that of diff at the two ends as well.
SinSign(diff) == IF diff > 0 THEN 1 ELSE IF diff < 0 THEN -1 ELSE 0

calculateCrossTrackError(startLat, startLng, targetBearing, currentLat, currentLng) ==
    IF isNaN(startLat) \/ isNaN(startLng) \/ isNaN(currentLat) \/ isNaN(currentLng)
       \/ isNaN(targetBearing)
    THEN [distance |-> 0, direction |-> "Right"]
    ELSE LET dist == calculateDistance(startLat, startLng, currentLat, currentLng)
             bearingToPoint == calculateBearing(startLat, startLng, currentLat, currentLng)
             diff == WrapDiff(bearingToPoint - targetBearing)
             xteSign == IF dist = 0 THEN 0 ELSE SinSign(diff)
         IN  [distance |-> RoundDiv(dist * SinMilli(Abs(diff)), 1000),
              direction |-> IF xteSign > 0 THEN "Right" ELSE "Left"]

\* t = dot / len2 is 0/0 = NaN for a zero-length baseline, and Math.max/min
\* hand NaN through; otherwise t is clamped to [0, 1].
snapToBaseline(startLat, startLng, endLat, endLng, pLat, pLng) ==
    IF isNaN(startLat) \/ isNaN(startLng) \/ isNaN(endLat) \/ isNaN(endLng)
       \/ isNaN(pLat) \/ isNaN(pLng)
    THEN [lat |-> startLat, lng |-> startLng]
    ELSE LET dLat == endLat - startLat
             dLng == endLng - startLng
             dot  == (pLat - startLat) * dLat + (pLng - startLng) * dLng
             len2 == dLat * dLat + dLng * dLng
         IN  IF len2 = 0 THEN [lat |-> NaN, lng |-> NaN]
             ELSE IF dot <= 0 THEN [lat |-> startLat, lng |-> startLng]
             ELSE IF dot >= len2 THEN [lat |-> startLat + dLat, lng |-> startLng + dLng]
             ELSE [lat |-> startLat + RoundDiv(dot * dLat, len2),
                   lng |-> startLng + RoundDiv(dot * dLng, len2)]

-----------------------------------------------------------------------------
(* services/geminiService.ts: the App component, state and helpers *)

\* A GeoPoint as finishGPSCollection builds it: the derived
\* fields are absent until addPointToSurvey or a recalculation sets them.
NewPoint(id, pos, type) ==
    [id |-> id, lat |-> pos[1], lng |-> pos[2], type |-> type,
     distance |-> Undefined, bearing |-> Undefined,
     collinearityError |-> Undefined, isSnapped |-> FALSE]

InitialStaking ==
    [isActive |-> FALSE,
     currentBearing |-> Null,
     targetBearing |-> Null,
     strictCollinearity |-> FALSE,
     collinearityTolerance |-> 10,
     baselineStartId |-> Null,
     baselineEndId |-> Null,
     baselineBearing |-> Null,
     baselineDistance |-> Null]

Ids(pts) == { pts[i].id : i \in 1..Len(pts) }

\* points.find(p => p.id === id); used only where the id is present.
Find(pts, id) == pts[CHOOSE i \in 1..Len(pts) : pts[i].id = id]

\* `point.bearing || null`: 0 and NaN are falsy.
OrNull(x) == IF x = 0 \/ isNaN(x) \/ x = Undefined THEN Null ELSE x

\* The mutation the staking block of addPointToSurvey makes on the point.
\* gate is TRUE when the strict gate returns `prev`.
StakingBlock(pts, st, point) ==
    IF st.isActive /\ Len(pts) > 0
    THEN LET last == pts[Len(pts)]
             p1 == [point EXCEPT
                      !.distance = calculateDistance(last.lat, last.lng, point.lat, point.lng),
                      !.bearing = calculateBearing(last.lat, last.lng, point.lat, point.lng)]
         IN  IF Len(pts) = 1
             THEN [point |-> p1, gate |-> FALSE,
                   staking |-> [st EXCEPT !.currentBearing = OrNull(p1.bearing)]]
             ELSE IF st.currentBearing # Null
             THEN LET error == calculateCollinearity(last.lat, last.lng, st.currentBearing,
                                                     point.lat, point.lng).error
                  IN  [point |-> [p1 EXCEPT !.collinearityError = error],
                       gate |-> st.strictCollinearity /\ error > st.collinearityTolerance,
                       staking |-> st]
             ELSE [point |-> p1, gate |-> FALSE, staking |-> st]
    ELSE [point |-> point, gate |-> FALSE, staking |-> st]

\* The intermediate-snapping block of addPointToSurvey.
SnapBlock(pts, st, point) ==
    IF st.baselineStartId # Null /\ st.baselineEndId # Null
       /\ st.baselineStartId \in Ids(pts) /\ st.baselineEndId \in Ids(pts)
    THEN LET start == Find(pts, st.baselineStartId)
             end == Find(pts, st.baselineEndId)
             snapped == snapToBaseline(start.lat, start.lng, end.lat, end.lng,
                                       point.lat, point.lng)
         IN  [point EXCEPT !.lat = snapped.lat, !.lng = snapped.lng,
                           !.type = "INTERMEDIATE", !.isSnapped = TRUE]
    ELSE point

\* addPointToSurvey: the new sequence, the new session and what was signalled.
addPointToSurvey(pts, st, point) ==
    LET sb == StakingBlock(pts, st, point)
    IN  IF sb.gate
        THEN [points |-> pts, staking |-> st, signal |-> "alert"]
        ELSE [points |-> Append(pts, SnapBlock(pts, st, sb.point)),
              staking |-> sb.staking, signal |-> "none"]

\* The "Recalculate metrics" map of movePoint and deletePoint.
Recalculate(pts) ==
    [i \in 1..Len(pts) |->
        IF i = 1 THEN [pts[i] EXCEPT !.distance = 0, !.bearing = 0]
        ELSE [pts[i] EXCEPT
                !.distance = calculateDistance(pts[i-1].lat, pts[i-1].lng, pts[i].lat, pts[i].lng),
                !.bearing = calculateBearing(pts[i-1].lat, pts[i-1].lng, pts[i].lat, pts[i].lng)]]

Without(pts, id) == SelectSeq(pts, LAMBDA p : p.id # id)

\* The `baseline` prop handed to MapComponent names both points with `!`;
\* MapComponent reads baseline.start.lat, which throws when a point is gone.
RenderThrows(pts, st) ==
    /\ st.baselineStartId # Null /\ st.baselineEndId # Null
    /\ ~(st.baselineStartId \in Ids(pts) /\ st.baselineEndId \in Ids(pts))

Mounted == ~RenderThrows(points, staking)

-----------------------------------------------------------------------------
(* services/geminiService.ts: the App component, handlers *)

\* setBaseline(pId), reading the session and the sequence of the current render.
setBaseline(pts, st, pId) ==
    IF st.baselineStartId = Null
    THEN [st EXCEPT !.baselineStartId = pId]
    ELSE IF st.baselineEndId = Null
    THEN IF st.baselineStartId \in Ids(pts) /\ pId \in Ids(pts)
         THEN LET start == Find(pts, st.baselineStartId)
                  end == Find(pts, pId)
              IN  [st EXCEPT
                     !.baselineEndId = pId,
                     !.baselineBearing = calculateBearing(start.lat, start.lng, end.lat, end.lng),
                     !.baselineDistance = calculateDistance(start.lat, start.lng, end.lat, end.lng)]
         ELSE st
    ELSE [st EXCEPT !.baselineStartId = pId, !.baselineEndId = Null,
                    !.baselineBearing = Null, !.baselineDistance = Null]

\* The bearing handleTurn stores, for a session that has a currentBearing.
TurnedBearing(cur, direction, angle) ==
    IF direction = "Left" THEN normalizeAngle(cur - angle)
    ELSE normalizeAngle(cur + angle)

\* The averaged fix reaches addPointToSurvey as a GPS or STAKING point.
finishGPSCollection(pos) ==
    /\ Mounted
    /\ nextId < MaxAdds
    /\ LET point == NewPoint(nextId + 1, pos, IF staking.isActive THEN "STAKING" ELSE "GPS")
           r == addPointToSurvey(points, staking, point)
       IN  /\ points' = r.points
           /\ staking' = r.staking
           /\ signal' = r.signal
    /\ nextId' = nextId + 1
    /\ UNCHANGED <<appVars, fn, gpsAveraging, gpsEffects>>

movePoint(id, pos) ==
    /\ Mounted
    /\ id \in Ids(points)
    /\ points' = Recalculate([i \in 1..Len(points) |->
                    IF points[i].id = id
                    THEN [points[i] EXCEPT !.lat = pos[1], !.lng = pos[2]]
                    ELSE points[i]])
    /\ signal' = "none"
    /\ UNCHANGED <<staking, nextId, appVars, fn, gpsAveraging, gpsEffects>>

\* deletePoint after the user confirmed.
deletePoint(id) ==
    /\ Mounted
    /\ id \in Ids(points)
    /\ points' = Recalculate(Without(points, id))
    /\ signal' = "none"
    /\ UNCHANGED <<staking, nextId, appVars, fn, gpsAveraging, gpsEffects>>

\* handleClearCurrent after the user confirmed.
handleClearCurrent ==
    /\ Mounted
    /\ points' = <<>>
    /\ signal' = "none"
    /\ UNCHANGED <<staking, nextId, appVars, fn, gpsAveraging, gpsEffects>>

\* toggleStakingMode with a trial or pro license.
toggleStakingMode ==
    /\ Mounted
    /\ staking' = [staking EXCEPT !.isActive = ~staking.isActive]
    /\ signal' = "none"
    /\ UNCHANGED <<points, nextId, appVars, fn, gpsAveraging, gpsEffects>>

\* The close button of the staking panel.
closeStakingPanel ==
    /\ Mounted
    /\ staking.isActive
    /\ staking' = [staking EXCEPT !.isActive = FALSE]
    /\ signal' = "none"
    /\ UNCHANGED <<points, nextId, appVars, fn, gpsAveraging, gpsEffects>>

\* The Strict / Loose button of the staking panel.
toggleStrict ==
    /\ Mounted
    /\ staking.isActive
    /\ staking' = [staking EXCEPT !.strictCollinearity = ~staking.strictCollinearity]
    /\ signal' = "none"
    /\ UNCHANGED <<points, nextId, appVars, fn, gpsAveraging, gpsEffects>>

\* onPointClick of a marker: setActivePointId, and setBaseline while staking.
onPointClick(id) ==
    /\ Mounted
    /\ id \in Ids(points)
    /\ staking' = IF staking.isActive THEN setBaseline(points, staking, id) ELSE staking
    /\ signal' = "none"
    /\ UNCHANGED <<points, nextId, appVars, fn, gpsAveraging, gpsEffects>>

\* A Clear button that forgets the start and keeps the end.
clearBaselineStartOnly ==
    /\ Mounted
    /\ staking.isActive
    /\ staking.baselineStartId # Null
    /\ staking' = [staking EXCEPT !.baselineStartId = Null]
    /\ signal' = "none"
    /\ UNCHANGED <<points, nextId, appVars, fn, gpsAveraging, gpsEffects>>

\* The Clear button of the Intermediate box.
clearBaseline ==
    /\ Mounted
    /\ staking.isActive
    /\ staking.baselineStartId # Null
    /\ staking' = [staking EXCEPT !.baselineStartId = Null, !.baselineEndId = Null]
    /\ signal' = "none"
    /\ UNCHANGED <<points, nextId, appVars, fn, gpsAveraging, gpsEffects>>

\* handleTurn with the angle read from the turn-angle input.
handleTurn(direction, angle) ==
    /\ Mounted
    /\ staking.isActive
    /\ staking' = IF staking.currentBearing = Null THEN staking
                  ELSE [staking EXCEPT
                          !.currentBearing = TurnedBearing(staking.currentBearing, direction, angle)]
    /\ signal' = "none"
    /\ UNCHANGED <<points, nextId, appVars, fn, gpsAveraging, gpsEffects>>

\* GPS averaging: the window of samples and the point made of it.

\* The accuracy threshold the user has set (default).
gpsThreshold == 5

\* The most samples one window collects.
MaxSamples == 2

\* The most points made of windows in one behaviour.
MaxFixes == 1

\* Weights are kept in units of 1 / WeightScale: 1/accuracy^2 is a whole
\* number of units for the accuracies 1, 2 and 20.
WeightScale == 400

\* Fixes watchPosition delivers: accuracy 0 and a missing accuracy, a
\* missing altitude, a poor accuracy of 20.
Samples ==
    { [lat |-> 0, lng |-> 0, accuracy |-> 2, altitude |-> 8],
      [lat |-> 20, lng |-> 20, accuracy |-> 20, altitude |-> Undefined],
      [lat |-> 20, lng |-> 0, accuracy |-> Undefined, altitude |-> 8],
      [lat |-> 0, lng |-> 20, accuracy |-> 0, altitude |-> 8],
      [lat |-> 20, lng |-> 20, accuracy |-> 1, altitude |-> 8] }

\* a * b and a + b of JavaScript on numbers that may be undefined or NaN.
JsMul(a, b) == IF a = Undefined \/ b = Undefined \/ isNaN(a) \/ isNaN(b) THEN NaN ELSE a * b

JsAdd(a, b) == IF a = Undefined \/ b = Undefined \/ isNaN(a) \/ isNaN(b) THEN NaN ELSE a + b

\* a / b of JavaScript to the grid: 0 / 0 is NaN.
JsDiv(a, b) == IF isNaN(a) \/ isNaN(b) \/ b = 0 THEN NaN ELSE RoundDiv(a, b)

\* The mutant of Weight: 1 / accuracy.
WeightLinear(accuracy) ==
    LET sq == accuracy
    IN  WeightScale \div (IF sq = 0 \/ isNaN(sq) \/ sq = Undefined THEN 1 ELSE sq)

\* const w = 1 / (s.accuracy * s.accuracy || 1)
Weight(accuracy) ==
    LET sq == JsMul(accuracy, accuracy)
    IN  WeightScale \div (IF sq = 0 \/ isNaN(sq) THEN 1 ELSE sq)

\* s.altitude || 0
AltitudeOrZero(altitude) == IF altitude = Undefined \/ isNaN(altitude) THEN 0 ELSE altitude

\* The sums of the forEach loop over the samples.
LatSum(samples) == SumTo([i \in 1..Len(samples) |-> samples[i].lat * Weight(samples[i].accuracy)], Len(samples))

LngSum(samples) == SumTo([i \in 1..Len(samples) |-> samples[i].lng * Weight(samples[i].accuracy)], Len(samples))

AltSum(samples) == SumTo([i \in 1..Len(samples) |-> AltitudeOrZero(samples[i].altitude) * Weight(samples[i].accuracy)], Len(samples))

WeightSum(samples) == SumTo([i \in 1..Len(samples) |-> Weight(samples[i].accuracy)], Len(samples))

\* samples.reduce((acc, s) => acc + s.accuracy, 0)
RECURSIVE AccuracySum(_)
AccuracySum(samples) ==
    IF samples = <<>> THEN 0
    ELSE JsAdd(AccuracySum(SubSeq(samples, 1, Len(samples) - 1)),
               samples[Len(samples)].accuracy)

avgAccuracy(samples) == JsDiv(AccuracySum(samples), Len(samples))

\* avgAccuracy > gpsThreshold, decided on the sum; NaN compares false.
LowAccuracy(samples) ==
    ~isNaN(AccuracySum(samples)) /\ AccuracySum(samples) > gpsThreshold * Len(samples)

\* The mutant of WindowEmpty: the window is never taken to be empty.
WindowNeverEmpty(samples) == FALSE

\* samples.length === 0
WindowEmpty(samples) == Len(samples) = 0

\* newPoint of finishGPSCollection.
AveragedPoint(id, samples, type) ==
    [id |-> id,
     lat |-> JsDiv(LatSum(samples), WeightSum(samples)),
     lng |-> JsDiv(LngSum(samples), WeightSum(samples)),
     altitude |-> JsDiv(AltSum(samples), WeightSum(samples)),
     accuracy |-> avgAccuracy(samples),
     type |-> type,
     distance |-> Undefined, bearing |-> Undefined,
     collinearityError |-> Undefined, isSnapped |-> FALSE]

\* The seconds a window starts with.
WindowSeconds == 20

\* The effects have run for the averaging state of the last render: the
\* watchPosition callback and the timer are those of the present state.
\* React runs pending effects before it hands a click to its handler.
GpsEffectsFlushed ==
    /\ gpsEffects.active = gpsAveraging.active
    /\ gpsEffects.timeLeft = gpsAveraging.timeLeft

\* The Average GPS button.  The fixes of Samples stand for a position
\* already received (gpsPosition is set).
startGPSCollection ==
    /\ Mounted
    /\ GpsEffectsFlushed
    /\ ~gpsAveraging.active
    /\ gpsAveraging' = [active |-> TRUE, timeLeft |-> WindowSeconds, samples |-> <<>>]
    /\ signal' = "none"
    /\ UNCHANGED <<points, staking, nextId, appVars, fn, gpsEffects>>

\* The watchPosition callback registered by the tracking effect: it reads
\* gpsAveraging.active of the render the effect ran for, and appends to the
\* samples of the present state.
watchPosition(sample) ==
    /\ Mounted
    /\ gpsEffects.active
    /\ Len(gpsAveraging.samples) < MaxSamples
    /\ gpsAveraging' = [gpsAveraging EXCEPT !.samples = Append(@, sample)]
    /\ signal' = "none"
    /\ UNCHANGED <<points, staking, nextId, appVars, fn, gpsEffects>>

\* finishGPSCollection on the window of the present render; `proceed` is
\* the user's answer to the accuracy warning.
finishGPSCollectionOf(proceed) ==
    /\ (~WindowEmpty(gpsAveraging.samples)
          /\ ~(LowAccuracy(gpsAveraging.samples) /\ ~proceed)) => nextId < MaxFixes
    /\ gpsAveraging' = [active |-> FALSE, timeLeft |-> 0, samples |-> <<>>]
    /\ LET samples == gpsAveraging.samples
       IN  IF WindowEmpty(samples)
           THEN /\ signal' = "alert"
                /\ UNCHANGED <<points, staking, nextId>>
           ELSE IF LowAccuracy(samples) /\ ~proceed
           THEN /\ signal' = "declined"
                /\ UNCHANGED <<points, staking, nextId>>
           ELSE LET point == AveragedPoint(nextId + 1, samples,
                                           IF staking.isActive THEN "STAKING" ELSE "GPS")
                    r == addPointToSurvey(points, staking, point)
                IN  /\ points' = r.points
                    /\ staking' = r.staking
                    /\ signal' = r.signal
                    /\ nextId' = nextId + 1
    /\ UNCHANGED <<appVars, fn>>

\* The Stop Early button of the averaging overlay.
finishGPSWindow(proceed) ==
    /\ Mounted
    /\ GpsEffectsFlushed
    /\ gpsAveraging.active
    /\ finishGPSCollectionOf(proceed)
    /\ UNCHANGED gpsEffects

\* The timeout of the timer effect fires: one second less, on the state as
\* it is then.
timerFires ==
    /\ Mounted
    /\ gpsEffects.timer
    /\ gpsAveraging' = [gpsAveraging EXCEPT !.timeLeft = @ - 1]
    /\ gpsEffects' = [gpsEffects EXCEPT !.timer = FALSE]
    /\ UNCHANGED <<points, staking, nextId, signal, appVars, fn>>

\* The render after a change of active or timeLeft, with its effects: the
\* tracking effect registers the callback anew, the timer effect clears its
\* timeout and then returns (inactive), finishes the window (timeLeft <= 0)
\* or sets the next timeout.
runGpsEffects(proceed) ==
    /\ Mounted
    /\ ~GpsEffectsFlushed
    /\ IF gpsAveraging.active /\ gpsAveraging.timeLeft <= 0
       THEN /\ finishGPSCollectionOf(proceed)
            /\ gpsEffects' = [active |-> gpsAveraging.active,
                              timeLeft |-> gpsAveraging.timeLeft, timer |-> FALSE]
       ELSE /\ proceed   \* no warning is shown, nothing is asked
            /\ gpsEffects' = [active |-> gpsAveraging.active,
                              timeLeft |-> gpsAveraging.timeLeft,
                              timer |-> gpsAveraging.active]
            /\ UNCHANGED <<gpsAveraging, points, staking, nextId, signal, appVars, fn>>

\* The stakingState App.tsx starts with.
StakingStateInit ==
    [isActive |-> FALSE,
     currentBearing |-> Null,
     targetBearing |-> Null,
     strictCollinearity |-> FALSE,
     collinearityTolerance |-> 1,
     baselineStartId |-> Null,
     baselineEndId |-> Null,
     baselineBearing |-> Null,
     baselineDistance |-> Null]

\* The other application and the function harness at rest.
\* The survey list before the initialization effect has run.
SurveysIdle ==
    /\ surveys = <<>>
    /\ currentSurveyId = Null
    /\ surveyRef = [null |-> TRUE]
    /\ allSurveysRef = <<>>
    /\ syncPending = FALSE
    /\ activePointId = Null
    /\ deletionHistory = [null |-> TRUE]
    /\ surveyToDelete = Null
    /\ importConflict = [null |-> TRUE]

AppIdle ==
    /\ surveyPoints = <<>>
    /\ stakingState = StakingStateInit
    /\ appNextId = 0
    /\ SurveysIdle

FnIdle == fn = [name |-> "none"]

\* No averaging window is open.
GpsIdle ==
    /\ gpsAveraging = [active |-> FALSE, timeLeft |-> 0, samples |-> <<>>]
    /\ gpsEffects = [active |-> FALSE, timeLeft |-> 0, timer |-> FALSE]

Init ==
    /\ points = <<>>
    /\ staking = InitialStaking
    /\ nextId = 0
    /\ signal = "none"
    /\ AppIdle
    /\ FnIdle
    /\ GpsIdle

Next ==
    \/ \E pos \in Fixes : finishGPSCollection(pos)
    \/ \E id \in 1..MaxAdds, pos \in Drops : movePoint(id, pos)
    \/ \E id \in 1..MaxAdds : deletePoint(id)
    \/ handleClearCurrent
    \/ toggleStakingMode
    \/ closeStakingPanel
    \/ toggleStrict
    \/ \E direction \in {"Left", "Right"}, angle \in TurnAngles : handleTurn(direction, angle)

Spec == Init /\ [][Next]_vars

NextBaseline ==
    \/ \E pos \in Fixes : finishGPSCollection(pos)
    \/ \E id \in 1..MaxAdds : deletePoint(id)
    \/ handleClearCurrent
    \/ toggleStakingMode
    \/ closeStakingPanel
    \/ \E id \in 1..MaxAdds : onPointClick(id)
    \/ clearBaseline

SpecBaseline == Init /\ [][NextBaseline]_vars

NextGps ==
    \/ startGPSCollection
    \/ \E sample \in Samples : watchPosition(sample)
    \/ \E proceed \in BOOLEAN : finishGPSWindow(proceed)
    \/ \E proceed \in BOOLEAN : runGpsEffects(proceed)
    \/ handleClearCurrent

SpecGps == Init /\ [][NextGps]_vars

\* The fix of the timed windows.
TimerSamples == { [lat |-> 0, lng |-> 0, accuracy |-> 2, altitude |-> 8] }

\* The averaging window with its timer, second by second.  A window is
\* started while a point can still be made of it.
NextGpsTimer ==
    \/ nextId < MaxFixes /\ startGPSCollection
    \/ \E sample \in TimerSamples : watchPosition(sample)
    \/ \E proceed \in BOOLEAN : finishGPSWindow(proceed)
    \/ timerFires
    \/ \E proceed \in BOOLEAN : runGpsEffects(proceed)

\* A timeout that was set fires, and a render that is due is made.
SpecGpsTimer ==
    /\ Init
    /\ [][NextGpsTimer]_vars
    /\ WF_vars(timerFires)
    /\ WF_vars(\E proceed \in BOOLEAN : runGpsEffects(proceed))

-----------------------------------------------------------------------------
(* App.tsx with components/StakingControls.tsx *)

\* Values typed into the Target Bearing input.
BearingInputs == { 0, 90, 400 }

\* The GeoPoint addGpsPoint builds before the staking block.
NewGpsPoint(id, pos, type) ==
    [id |-> id, lat |-> pos[1], lng |-> pos[2], type |-> type,
     distance |-> Undefined, bearing |-> Undefined,
     collinearityError |-> Undefined, turnDirection |-> "none"]

recalculateGeometry(pts) ==
    [i \in 1..Len(pts) |->
        IF i = 1 THEN [pts[i] EXCEPT !.distance = 0, !.bearing = 0]
        ELSE LET dist == calculateDistance(pts[i-1].lat, pts[i-1].lng, pts[i].lat, pts[i].lng)
                 bear == calculateBearing(pts[i-1].lat, pts[i-1].lng, pts[i].lat, pts[i].lng)
             IN  [pts[i] EXCEPT !.distance = IF isNaN(dist) THEN 0 ELSE dist,
                                !.bearing = IF isNaN(bear) THEN 0 ELSE bear]]

getLastSegmentBearing(pts) ==
    IF Len(pts) < 2 THEN Null
    ELSE LET last == pts[Len(pts)]
             prev == pts[Len(pts) - 1]
         IN  IF last.bearing # Undefined /\ ~isNaN(last.bearing) /\ last.bearing # 0
             THEN last.bearing
             ELSE IF ~isNaN(prev.lat) /\ ~isNaN(prev.lng) /\ ~isNaN(last.lat) /\ ~isNaN(last.lng)
             THEN calculateBearing(prev.lat, prev.lng, last.lat, last.lng)
             ELSE Null

\* The staking block of addGpsPoint (lines 226-243).
GpsStakingBlock(pts, st, newPoint) ==
    IF st.isActive /\ Len(pts) > 0
    THEN LET lastPt == pts[Len(pts)]
         IN  IF ~isNaN(lastPt.lat) /\ ~isNaN(lastPt.lng)
             THEN LET bearing == calculateBearing(lastPt.lat, lastPt.lng, newPoint.lat, newPoint.lng)
                      distance == calculateDistance(lastPt.lat, lastPt.lng, newPoint.lat, newPoint.lng)
                      p1 == [newPoint EXCEPT !.bearing = bearing, !.distance = distance]
                  IN  IF st.targetBearing # Null
                      THEN LET diff == WrapDiff(bearing - st.targetBearing)
                           IN  [p1 EXCEPT !.collinearityError = Abs(diff),
                                          !.turnDirection = IF diff > 0 THEN "Right" ELSE "Left"]
                      ELSE p1
             ELSE newPoint
    ELSE newPoint

\* addGpsPoint with gpsPosition = pos: the point is appended and the whole
\* sequence recalculated by updateCurrentSurveyPoints.
addGpsPoint(pos) ==
    /\ appNextId < MaxAdds
    /\ LET newPoint == NewGpsPoint(appNextId + 1, pos,
                                   IF stakingState.isActive THEN "STAKING" ELSE "GPS")
       IN  surveyPoints' = recalculateGeometry(
                              Append(surveyPoints,
                                     GpsStakingBlock(surveyPoints, stakingState, newPoint)))
    /\ appNextId' = appNextId + 1
    /\ signal' = "none"
    /\ UNCHANGED <<stakingState, points, staking, nextId, fn, gpsAveraging, gpsEffects, surveyVars>>

\* handleDeletePoint with activePointId = id.
handleDeletePoint(id) ==
    /\ id \in Ids(surveyPoints)
    /\ surveyPoints' = recalculateGeometry(Without(surveyPoints, id))
    /\ signal' = "none"
    /\ UNCHANGED <<stakingState, appNextId, points, staking, nextId, fn, gpsAveraging, gpsEffects, surveyVars>>

confirmClearAll ==
    /\ surveyPoints' = <<>>
    /\ signal' = "none"
    /\ UNCHANGED <<stakingState, appNextId, points, staking, nextId, fn, gpsAveraging, gpsEffects, surveyVars>>

\* onUpdate(newState) of StakingControls is setStakingState.
onUpdate(newState) ==
    /\ stakingState' = newState
    /\ signal' = "none"
    /\ UNCHANGED <<surveyPoints, appNextId, points, staking, nextId, fn, gpsAveraging, gpsEffects, surveyVars>>

toggleStaking ==
    onUpdate([stakingState EXCEPT !.isActive = ~stakingState.isActive])

\* handleBearingChange with the parsed input value.
handleBearingChange(val) ==
    /\ stakingState.isActive
    /\ stakingState.targetBearing # val
    /\ onUpdate([stakingState EXCEPT !.targetBearing = IF isNaN(val) THEN Null ELSE val])

setBearingFromCurrent ==
    /\ stakingState.isActive
    /\ getLastSegmentBearing(surveyPoints) # Null
    /\ onUpdate([stakingState EXCEPT !.targetBearing = getLastSegmentBearing(surveyPoints)])

\* let newBearing = targetBearing + 180; if (newBearing >= 360) newBearing -= 360
FlippedBearing(targetBearing) ==
    LET newBearing == targetBearing + 180
    IN  IF newBearing >= 360 THEN newBearing - 360 ELSE newBearing

flipBearing ==
    /\ stakingState.isActive
    /\ stakingState.targetBearing # Null
    /\ onUpdate([stakingState EXCEPT
                    !.targetBearing = FlippedBearing(stakingState.targetBearing)])

clearTargetBearing ==
    /\ stakingState.isActive
    /\ onUpdate([stakingState EXCEPT !.targetBearing = Null])

\* The Strict Mode checkbox.
setStrictCollinearity(checked) ==
    /\ stakingState.isActive
    /\ onUpdate([stakingState EXCEPT !.strictCollinearity = checked])

InitApp ==
    /\ AppIdle
    /\ signal = "none"
    /\ points = <<>>
    /\ staking = InitialStaking
    /\ nextId = 0
    /\ FnIdle
    /\ GpsIdle

NextApp ==
    \/ \E pos \in Fixes : addGpsPoint(pos)
    \/ \E id \in 1..MaxAdds : handleDeletePoint(id)
    \/ confirmClearAll
    \/ toggleStaking
    \/ \E val \in BearingInputs \cup {NaN} : handleBearingChange(val)
    \/ setBearingFromCurrent
    \/ flipBearing
    \/ clearTargetBearing
    \/ \E checked \in BOOLEAN : setStrictCollinearity(checked)

SpecApp == InitApp /\ [][NextApp]_vars

-----------------------------------------------------------------------------
(* App.tsx: the survey list, the refs the handlers read, delete and undo *)

\* The most ids generateUUID hands out, and the most surveys in the list.
MaxUuids == 4
MaxSurveys == 3

\* Positions of map clicks and GPS fixes.
ClickPositions == { <<0, 0>>, <<0, 2>> }

\* null where a survey, a deletion record or an import conflict is expected.
NullObject == [null |-> TRUE]

\* A survey as createNewSurvey builds it.  The clock is not modelled: a
\* survey made on the device has updated = 0 and keeps it.
NewSurvey(id) == [id |-> id, points |-> <<>>, updated |-> 0]

SurveyIds(list) == { list[i].id : i \in 1..Len(list) }

\* surveys.find(s => s.id === id): the first survey of that id, or null.
FindSurvey(list, id) ==
    IF id \in SurveyIds(list)
    THEN list[CHOOSE i \in 1..Len(list) :
                 list[i].id = id /\ \A j \in 1..(i - 1) : list[j].id # id]
    ELSE NullObject

\* Files handed to the import: surveys exported from another device, and
\* a file that holds the survey with id 1 of this device as well.  Within
\* a file the surveys are in descending order of `updated`.
ImportFiles ==
    { << [id |-> 101, points |-> <<>>, updated |-> 5] >>,
      << [id |-> 1, points |-> <<>>, updated |-> 9],
         [id |-> 102, points |-> <<>>, updated |-> 5] >>,
      << [id |-> 1, points |-> <<>>, updated |-> 9] >> }

\* list.sort((a, b) => b.updated - a.updated)[0]: the first survey with the
\* greatest `updated`.
Latest(list) ==
    list[CHOOSE i \in 1..Len(list) :
            /\ \A j \in 1..Len(list) : list[j].updated <= list[i].updated
            /\ \A j \in 1..(i - 1) : list[j].updated < list[i].updated]

\* A modal covers the whole application; of two open modals the Import
\* Conflict modal, rendered later, is on top.
NoModal == surveyToDelete = Null /\ importConflict = NullObject

\* React runs the scheduled effects before it dispatches a click to one of
\* its own handlers, so those handlers read refs that are in step with the
\* state.  Leaflet's map events and the FileReader's onload do not pass
\* through React's dispatch and may run while the effect is still scheduled.
EffectsFlushed == ~syncPending

\* The Sync Refs effect.
syncRefs ==
    /\ syncPending
    /\ allSurveysRef' = surveys
    /\ surveyRef' = IF FindSurvey(surveys, currentSurveyId) # NullObject
                    THEN FindSurvey(surveys, currentSurveyId)
                    ELSE surveyRef
    /\ syncPending' = FALSE
    /\ UNCHANGED <<surveys, currentSurveyId, activePointId, deletionHistory, surveyToDelete,
                   importConflict, surveyPoints, stakingState, appNextId, legacyVars, fn,
                   gpsAveraging, gpsEffects>>

\* updateCurrentSurveyPoints(newPoints): prev.map(s => s.id ===
\* currentSurveyId ? { ...s, points: recalculated } : s).
SurveysWithPoints(list, id, newPoints) ==
    [i \in 1..Len(list) |->
        IF list[i].id = id THEN [list[i] EXCEPT !.points = recalculateGeometry(newPoints)]
        ELSE list[i]]

updateCurrentSurveyPoints(newPoints) ==
    /\ surveys' = IF currentSurveyId = Null THEN surveys
                  ELSE SurveysWithPoints(surveys, currentSurveyId, newPoints)
    /\ syncPending' = (syncPending \/ currentSurveyId # Null)

\* handleMapClick in manual mode, a Leaflet event.
handleMapClick(pos) ==
    /\ NoModal
    /\ currentSurveyId # Null
    /\ appNextId < MaxUuids
    /\ appNextId' = appNextId + 1
    /\ IF surveyRef # NullObject
       THEN updateCurrentSurveyPoints(
               Append(surveyRef.points, NewGpsPoint(appNextId + 1, pos, "MANUAL")))
       ELSE UNCHANGED <<surveys, syncPending>>
    /\ signal' = "none"
    /\ UNCHANGED <<currentSurveyId, surveyRef, allSurveysRef, activePointId, deletionHistory,
                   surveyToDelete, importConflict, surveyPoints, stakingState, points, staking,
                   nextId, fn, gpsAveraging, gpsEffects>>

\* addGpsPoint on the survey list, with gpsPosition = pos: the Add GPS
\* Point button.
addGpsPointToSurvey(pos) ==
    /\ NoModal
    /\ EffectsFlushed
    /\ currentSurveyId # Null
    /\ appNextId < MaxUuids
    /\ appNextId' = appNextId + 1
    /\ IF surveyRef # NullObject
       THEN LET newPoint == NewGpsPoint(appNextId + 1, pos,
                                        IF stakingState.isActive THEN "STAKING" ELSE "GPS")
            IN  updateCurrentSurveyPoints(
                   Append(surveyRef.points,
                          GpsStakingBlock(surveyRef.points, stakingState, newPoint)))
       ELSE UNCHANGED <<surveys, syncPending>>
    /\ signal' = "none"
    /\ UNCHANGED <<currentSurveyId, surveyRef, allSurveysRef, activePointId, deletionHistory,
                   surveyToDelete, importConflict, surveyPoints, stakingState, points, staking,
                   nextId, fn, gpsAveraging, gpsEffects>>

\* The markers on the map are the points of currentSurvey, which is
\* surveys.find(s => s.id === currentSurveyId) || surveys[0].
CurrentPoints ==
    IF FindSurvey(surveys, currentSurveyId) # NullObject
    THEN FindSurvey(surveys, currentSurveyId).points
    ELSE IF Len(surveys) > 0 THEN surveys[1].points ELSE <<>>

\* handlePointClick(id): a marker of the map was clicked.
handlePointClick(id) ==
    /\ NoModal
    /\ id \in Ids(CurrentPoints)
    /\ activePointId' = id
    /\ signal' = "none"
    /\ UNCHANGED <<surveys, currentSurveyId, surveyRef, allSurveysRef, syncPending,
                   deletionHistory, surveyToDelete, importConflict, surveyPoints, stakingState,
                   appNextId, points, staking, nextId, fn, gpsAveraging, gpsEffects>>

\* currentPoints.findIndex(p => p.id === id), counted from 0; -1 if absent.
FindIndex(pts, id) ==
    IF id \in Ids(pts)
    THEN (CHOOSE i \in 1..Len(pts) : pts[i].id = id /\ \A j \in 1..(i - 1) : pts[j].id # id) - 1
    ELSE -1

\* handleDeletePoint of App.tsx: the Delete button of the selected point.
handleDeleteActivePoint ==
    /\ NoModal
    /\ EffectsFlushed
    /\ activePointId # Null /\ currentSurveyId # Null /\ surveyRef # NullObject
    /\ FindIndex(surveyRef.points, activePointId) # -1
    /\ LET currentPoints == surveyRef.points
           index == FindIndex(currentPoints, activePointId)
       IN  /\ deletionHistory' = [point |-> currentPoints[index + 1], index |-> index,
                                  surveyId |-> currentSurveyId]
           /\ updateCurrentSurveyPoints(Without(currentPoints, activePointId))
    /\ activePointId' = Null
    /\ signal' = "none"
    /\ UNCHANGED <<currentSurveyId, surveyRef, allSurveysRef, surveyToDelete, importConflict,
                   surveyPoints, stakingState, appNextId, points, staking, nextId, fn,
                   gpsAveraging, gpsEffects>>

\* currentPoints.splice(index, 0, point)
Splice(pts, index, point) ==
    IF index >= Len(pts) THEN Append(pts, point)
    ELSE SubSeq(pts, 1, index) \o <<point>> \o SubSeq(pts, index + 1, Len(pts))

\* handleUndoDelete: the Undo button of the toast.
handleUndoDelete ==
    /\ EffectsFlushed
    /\ deletionHistory # NullObject /\ currentSurveyId # Null
    /\ IF deletionHistory.surveyId # currentSurveyId
       THEN /\ signal' = "alert"
            /\ UNCHANGED <<surveys, syncPending, deletionHistory>>
       ELSE /\ surveyRef # NullObject
            /\ updateCurrentSurveyPoints(
                  Splice(surveyRef.points, deletionHistory.index, deletionHistory.point))
            /\ deletionHistory' = NullObject
            /\ signal' = "none"
    /\ UNCHANGED <<currentSurveyId, surveyRef, allSurveysRef, activePointId, surveyToDelete,
                   importConflict, surveyPoints, stakingState, appNextId, points, staking,
                   nextId, fn, gpsAveraging, gpsEffects>>

createNewSurvey ==
    /\ NoModal
    /\ EffectsFlushed
    /\ appNextId < MaxUuids /\ Len(surveys) < MaxSurveys
    /\ appNextId' = appNextId + 1
    /\ surveys' = Append(surveys, NewSurvey(appNextId + 1))
    /\ currentSurveyId' = appNextId + 1
    /\ syncPending' = TRUE
    /\ signal' = "none"
    /\ UNCHANGED <<surveyRef, allSurveysRef, activePointId, deletionHistory, surveyToDelete,
                   importConflict, surveyPoints, stakingState, points, staking, nextId, fn,
                   gpsAveraging, gpsEffects>>

\* requestDeleteSurvey(id): the trash button of a survey of the list.
requestDeleteSurvey(id) ==
    /\ NoModal
    /\ EffectsFlushed
    /\ id \in SurveyIds(surveys)
    /\ surveyToDelete' = id
    /\ signal' = "none"
    /\ UNCHANGED <<surveys, currentSurveyId, surveyRef, allSurveysRef, syncPending,
                   activePointId, deletionHistory, importConflict, surveyPoints, stakingState,
                   appNextId, points, staking, nextId, fn, gpsAveraging, gpsEffects>>

\* surveys.filter(s => s.id !== id)
SurveysWithout(list, id) == SelectSeq(list, LAMBDA s : s.id # id)

\* confirmDeleteSurvey: the Delete button of the Delete Survey modal.
confirmDeleteSurvey ==
    /\ importConflict = NullObject
    /\ EffectsFlushed
    /\ surveyToDelete # Null
    /\ LET updatedSurveys == SurveysWithout(surveys, surveyToDelete)
       IN  IF Len(updatedSurveys) = 0
           THEN /\ appNextId < MaxUuids
                /\ appNextId' = appNextId + 1
                /\ surveys' = <<NewSurvey(appNextId + 1)>>
                /\ currentSurveyId' = appNextId + 1
           ELSE /\ surveys' = updatedSurveys
                /\ currentSurveyId' = IF currentSurveyId = surveyToDelete
                                      THEN updatedSurveys[1].id ELSE currentSurveyId
                /\ UNCHANGED appNextId
    /\ surveyToDelete' = Null
    /\ syncPending' = TRUE
    /\ signal' = "none"
    /\ UNCHANGED <<surveyRef, allSurveysRef, activePointId, deletionHistory, importConflict,
                   surveyPoints, stakingState, points, staking, nextId, fn, gpsAveraging, gpsEffects>>

\* Cancel or the close button of the Delete Survey modal.
cancelDeleteSurvey ==
    /\ importConflict = NullObject
    /\ EffectsFlushed
    /\ surveyToDelete # Null
    /\ surveyToDelete' = Null
    /\ signal' = "none"
    /\ UNCHANGED <<surveys, currentSurveyId, surveyRef, allSurveysRef, syncPending,
                   activePointId, deletionHistory, importConflict, surveyPoints, stakingState,
                   appNextId, points, staking, nextId, fn, gpsAveraging, gpsEffects>>

\* handleSurveySelect(id): a survey of the list was clicked.
handleSurveySelect(id) ==
    /\ NoModal
    /\ EffectsFlushed
    /\ id \in SurveyIds(surveys)
    /\ currentSurveyId' = id
    /\ activePointId' = Null
    /\ syncPending' = (syncPending \/ id # currentSurveyId)
    /\ signal' = "none"
    /\ UNCHANGED <<surveys, surveyRef, allSurveysRef, deletionHistory, surveyToDelete,
                   importConflict, surveyPoints, stakingState, appNextId, points, staking,
                   nextId, fn, gpsAveraging, gpsEffects>>

\* The surveys of a file whose ids are (in) or are not in a set of ids.
FileSurveys(file, ids, in) == SelectSeq(file, LAMBDA s : (s.id \in ids) = in)

\* reader.onload of handleImport, with the valid surveys of the file: the
\* FileReader's callback, which runs when the file has been read.
handleImport(validSurveys) ==
    /\ Len(surveys) + Len(validSurveys) <= MaxSurveys
    /\ LET currentIds == SurveyIds(allSurveysRef)
           newSurveys == FileSurveys(validSurveys, currentIds, FALSE)
           existingSurveys == FileSurveys(validSurveys, currentIds, TRUE)
       IN  IF Len(existingSurveys) > 0
           THEN /\ importConflict' = [newSurveys |-> newSurveys,
                                      existingSurveys |-> existingSurveys]
                /\ signal' = "none"
                /\ UNCHANGED <<surveys, currentSurveyId, syncPending>>
           ELSE /\ surveys' = surveys \o newSurveys
                /\ currentSurveyId' = IF Len(newSurveys) > 0 THEN Latest(newSurveys).id
                                      ELSE currentSurveyId
                /\ syncPending' = TRUE
                /\ signal' = "alert"
                /\ UNCHANGED importConflict
    /\ UNCHANGED <<surveyRef, allSurveysRef, activePointId, deletionHistory, surveyToDelete,
                   surveyPoints, stakingState, appNextId, points, staking, nextId, fn,
                   gpsAveraging, gpsEffects>>

\* final.map(s => overwriteMap.has(s.id) ? overwriteMap.get(s.id) : s)
Overwritten(list, existingSurveys) ==
    [i \in 1..Len(list) |->
        IF list[i].id \in SurveyIds(existingSurveys)
        THEN existingSurveys[CHOOSE k \in 1..Len(existingSurveys) :
                /\ existingSurveys[k].id = list[i].id
                /\ \A m \in (k + 1)..Len(existingSurveys) : existingSurveys[m].id # list[i].id]
        ELSE list[i]]

\* resolveImportConflict(overwrite): Keep Existing or Overwrite Existing.
resolveImportConflict(overwrite) ==
    /\ EffectsFlushed
    /\ importConflict # NullObject
    /\ Len(surveys) + Len(importConflict.newSurveys) <= MaxSurveys
    /\ LET newSurveys == importConflict.newSurveys
           existingSurveys == importConflict.existingSurveys
           final == surveys \o newSurveys
           allImported == newSurveys \o (IF overwrite THEN existingSurveys ELSE <<>>)
       IN  /\ surveys' = IF overwrite THEN Overwritten(final, existingSurveys) ELSE final
           /\ currentSurveyId' = IF Len(allImported) > 0 THEN Latest(allImported).id
                                 ELSE currentSurveyId
    /\ importConflict' = NullObject
    /\ syncPending' = TRUE
    /\ signal' = "none"
    /\ UNCHANGED <<surveyRef, allSurveysRef, activePointId, deletionHistory, surveyToDelete,
                   surveyPoints, stakingState, appNextId, points, staking, nextId, fn,
                   gpsAveraging, gpsEffects>>

\* Cancel or the close button of the Import Conflict modal.
cancelImportConflict ==
    /\ EffectsFlushed
    /\ importConflict # NullObject
    /\ importConflict' = NullObject
    /\ signal' = "none"
    /\ UNCHANGED <<surveys, currentSurveyId, surveyRef, allSurveysRef, syncPending,
                   activePointId, deletionHistory, surveyToDelete, surveyPoints, stakingState,
                   appNextId, points, staking, nextId, fn, gpsAveraging, gpsEffects>>

\* The application once mounted with nothing saved: the initialization
\* effect has made one survey through createNewSurvey and made it current,
\* and the Sync Refs effect has copied it into the refs.
InitSurveys ==
    /\ surveys = <<NewSurvey(1)>>
    /\ currentSurveyId = 1
    /\ surveyRef = NewSurvey(1)
    /\ allSurveysRef = <<NewSurvey(1)>>
    /\ syncPending = FALSE
    /\ activePointId = Null
    /\ deletionHistory = NullObject
    /\ surveyToDelete = Null
    /\ importConflict = NullObject
    /\ surveyPoints = <<>>
    /\ stakingState = StakingStateInit
    /\ appNextId = 1
    /\ points = <<>>
    /\ staking = InitialStaking
    /\ nextId = 0
    /\ signal = "none"
    /\ FnIdle
    /\ GpsIdle

\* The points of the surveys: adding, selecting, deleting and restoring
\* them, in one survey or another.
NextSurveys ==
    \/ syncRefs
    \/ \E pos \in ClickPositions : handleMapClick(pos)
    \/ \E pos \in ClickPositions : addGpsPointToSurvey(pos)
    \/ \E id \in 1..MaxUuids : handlePointClick(id)
    \/ handleDeleteActivePoint
    \/ handleUndoDelete
    \/ createNewSurvey
    \/ \E id \in SurveyIds(surveys) : handleSurveySelect(id)

SpecSurveys == InitSurveys /\ [][NextSurveys]_vars

\* The list of surveys: creating, deleting, selecting and importing them.
NextSurveyList ==
    \/ syncRefs
    \/ createNewSurvey
    \/ \E id \in SurveyIds(surveys) : requestDeleteSurvey(id)
    \/ confirmDeleteSurvey
    \/ cancelDeleteSurvey
    \/ \E id \in SurveyIds(surveys) : handleSurveySelect(id)
    \/ \E validSurveys \in ImportFiles : handleImport(validSurveys)
    \/ \E overwrite \in BOOLEAN : resolveImportConflict(overwrite)
    \/ cancelImportConflict

SpecSurveyList == InitSurveys /\ [][NextSurveyList]_vars

-----------------------------------------------------------------------------
(* The functions of geoService.ts applied to inputs *)

Bearings == 0..359

applyCollinearity(actual, target) ==
    /\ fn' = [name |-> "calculateCollinearity", actual |-> actual, target |-> target,
              result |-> CollinearityOf(actual, target)]
    /\ UNCHANGED <<legacyVars, appVars, gpsAveraging, gpsEffects>>

InitFn ==
    /\ FnIdle
    /\ GpsIdle
    /\ points = <<>>
    /\ staking = InitialStaking
    /\ nextId = 0
    /\ signal = "none"
    /\ AppIdle

\* Target bearings handed to the staking functions.
Targets == { 0, 45, 180, 270 }

\* Positions handed to the functions.
Grid == { <<lat, lng>> : lat \in 0..2, lng \in 0..2 }

\* calculateCrossTrackError as liveStakingStats calls it, next to
\* calculateCollinearity on the same origin, target bearing and fix.
applyCrossTrackError(start, target, current) ==
    /\ fn' = [name |-> "calculateCrossTrackError", start |-> start, target |-> target,
              current |-> current,
              result |-> calculateCrossTrackError(start[1], start[2], target,
                                                  current[1], current[2]),
              collinearity |-> calculateCollinearity(start[1], start[2], target,
                                                     current[1], current[2])]
    /\ UNCHANGED <<legacyVars, appVars, gpsAveraging, gpsEffects>>

\* The longest point list handed to calculateArea and calculatePerimeter.
MaxPoly == 3

\* Vertices: four positions in range, one with a NaN latitude, one with a
\* latitude beyond 90 degrees.
PolyValid == { [lat |-> lat, lng |-> lng] : lat \in {0, 60}, lng \in {0, 4} }

PolyPoints == PolyValid \cup { [lat |-> NaN, lng |-> 0], [lat |-> 92, lng |-> 0] }

PolyLists == UNION { [1..n -> PolyPoints] : n \in 0..MaxPoly }

\* The global proj4: absent, working, or failing on one position.
Projectors ==
    { [defined |-> FALSE, fails |-> {}, mode |-> "NaN"],
      [defined |-> TRUE, fails |-> {}, mode |-> "NaN"] }
    \cup { [defined |-> TRUE, fails |-> {<<p.lat, p.lng>>}, mode |-> mode] :
              p \in PolyValid, mode \in {"NaN", "throw"} }

applyArea(pts, proj4) ==
    /\ fn' = [name |-> "calculateArea", points |-> pts, proj4 |-> proj4,
              result |-> calculateArea(pts, proj4)]
    /\ UNCHANGED <<legacyVars, appVars, gpsAveraging, gpsEffects>>

applyPerimeter(pts) ==
    /\ fn' = [name |-> "calculatePerimeter", points |-> pts,
              result |-> calculatePerimeter(pts)]
    /\ UNCHANGED <<legacyVars, appVars, gpsAveraging, gpsEffects>>

\* Whole-degree latitudes and longitudes of the valid range handed to
\* latLngToUtm, the ends of the range and the zone borders among them.
UtmLats == { -90, -45, 0, 1, 90 }

UtmLngs == { -180, -175, -174, -6, 0, 5, 6, 173, 174, 179, 180 }

\* latLngToUtm on a valid coordinate with a working proj4.
applyLatLngToUtm(lat, lng) ==
    /\ fn' = [name |-> "latLngToUtm", lat |-> lat, lng |-> lng,
              result |-> latLngToUtm(lat, lng,
                                     [defined |-> TRUE, fails |-> {}, mode |-> "NaN"])]
    /\ UNCHANGED <<legacyVars, appVars, gpsAveraging, gpsEffects>>

\* Baseline endpoints and fixes for snapToBaseline.
SnapGrid == { <<lat, lng>> : lat \in 0..4, lng \in 0..4 }

\* snapToBaseline applied to a fix, and applied again to what it returned.
applySnap(start, end, p) ==
    /\ fn' = [name |-> "snapToBaseline", start |-> start, end |-> end, p |-> p,
              result |-> snapToBaseline(start[1], start[2], end[1], end[2], p[1], p[2]),
              again |-> LET r == snapToBaseline(start[1], start[2], end[1], end[2], p[1], p[2])
                        IN  snapToBaseline(start[1], start[2], end[1], end[2], r.lat, r.lng)]
    /\ UNCHANGED <<legacyVars, appVars, gpsAveraging, gpsEffects>>

\* Angles normalizeAngle is applied to: every angle of two turns either way
\* that a double of the cut-down significand holds, in eighths of a degree.
AngleInputs ==
    { v \in (-720 * UnitsPerDegree)..(720 * UnitsPerDegree) :
         RoundToDouble(Abs(v)) = Abs(v) /\ v \notin {NaN, Null, Undefined} }

applyNormalizeAngle(angle) ==
    /\ fn' = [name |-> "normalizeAngle", angle |-> angle,
              result |-> normalizeAngleRounded(angle),
              again |-> normalizeAngleRounded(normalizeAngleRounded(angle))]
    /\ UNCHANGED <<legacyVars, appVars, gpsAveraging, gpsEffects>>

\* One application per behaviour: the harness starts idle and applies once.
FnReady == fn.name = "none"

NextFn ==
    \/ FnReady /\ \E actual \in Bearings, target \in Bearings : applyCollinearity(actual, target)

SpecFn == InitFn /\ [][NextFn]_vars

\* The geometry of geoService.ts on positions.
NextGeo ==
    \/ FnReady /\ \E start \in Grid, target \in Targets, current \in Grid :
                    applyCrossTrackError(start, target, current)
    \/ FnReady /\ \E pts \in PolyLists, proj4 \in Projectors : applyArea(pts, proj4)
    \/ FnReady /\ \E pts \in PolyLists : applyPerimeter(pts)
    \/ FnReady /\ \E start \in SnapGrid, end \in SnapGrid, p \in SnapGrid : applySnap(start, end, p)
    \/ FnReady /\ \E angle \in AngleInputs : applyNormalizeAngle(angle)
    \/ FnReady /\ \E lat \in UtmLats, lng \in UtmLngs : applyLatLngToUtm(lat, lng)

SpecGeo == InitFn /\ [][NextGeo]_vars

-----------------------------------------------------------------------------
(* Claims *)

\* The strict gate, read off a step of addGpsPoint in App.tsx: the error the
\* handler stores for the fix against the target bearing.
GpsError(pos) ==
    Abs(WrapDiff(calculateBearing(surveyPoints[Len(surveyPoints)].lat,
                                  surveyPoints[Len(surveyPoints)].lng, pos[1], pos[2])
                 - stakingState.targetBearing))

GpsErrorExceeds(pos) ==
    /\ stakingState.isActive
    /\ stakingState.strictCollinearity
    /\ Len(surveyPoints) > 0
    /\ stakingState.targetBearing # Null
    /\ GpsError(pos) > stakingState.collinearityTolerance

\* C1: a point added while staking is active, strict collinearity is on and
\* its collinearity error exceeds the tolerance is rejected: the sequence and
\* the session stay as they were and the user is alerted.
C1_StrictGateRejects ==
    [][\A pos \in Fixes :
         (addGpsPoint(pos) /\ GpsErrorExceeds(pos))
            => /\ surveyPoints' = surveyPoints
               /\ stakingState' = stakingState
               /\ signal' = "alert"]_vars

\* C2: adding the second point under active staking makes currentBearing the
\* bearing from point 1 to point 2, whatever that bearing is, and never null.
\* (Stated for a second point away from the first, so that the bearing is
\* that of a real segment.)
C2_SecondPointSetsBearing ==
    [][\A pos \in Fixes :
         (finishGPSCollection(pos) /\ staking.isActive /\ Len(points) = 1
            /\ <<points[1].lat, points[1].lng>> # pos)
            => /\ staking'.currentBearing # Null
               /\ staking'.currentBearing =
                     calculateBearing(points[1].lat, points[1].lng, pos[1], pos[2])]_vars

\* The reference bearing of the session: targetBearing if set, else
\* currentBearing.
ReferenceBearing(st) ==
    IF st.targetBearing # Null THEN st.targetBearing ELSE st.currentBearing

\* A line staked from the first point on: every point was added under
\* staking and no two neighbours coincide.
StakedLine(pts) ==
    /\ \A i \in 1..Len(pts) : pts[i].type = "STAKING"
    /\ \A i \in 2..Len(pts) : <<pts[i].lat, pts[i].lng>> # <<pts[i-1].lat, pts[i-1].lng>>

\* C3: every third or later point added under active staking carries a
\* collinearity error, the magnitude of the wrapped difference between the
\* bearing from its predecessor and the reference bearing.
C3_ErrorStoredFromThirdPoint ==
    [][\A pos \in Fixes :
         (finishGPSCollection(pos) /\ staking.isActive /\ Len(points) >= 2
            /\ StakedLine(points) /\ Len(points') = Len(points) + 1)
            => LET new == points'[Len(points')]
                   last == points[Len(points)]
                   ref == ReferenceBearing(staking)
               IN  /\ new.collinearityError # Undefined
                   /\ ref # Null =>
                        new.collinearityError =
                           Abs(WrapDiff(calculateBearing(last.lat, last.lng, pos[1], pos[2])
                                        - ref))]_vars

BaselineFullySet(pts, st) ==
    /\ st.baselineStartId # Null /\ st.baselineEndId # Null
    /\ st.baselineStartId \in Ids(pts) /\ st.baselineEndId \in Ids(pts)

\* v lies between a and b, in either order.
Between(a, v, b) == (a <= v /\ v <= b) \/ (b <= v /\ v <= a)

\* C4: while a baseline is fully set, every newly added point is appended as
\* an INTERMEDIATE, snapped point whose stored position is a position of the
\* baseline segment, between its two endpoints.
C4_AddedPointSnappedOntoSegment ==
    [][\A pos \in Fixes :
         (finishGPSCollection(pos) /\ BaselineFullySet(points, staking)
            /\ Len(points') = Len(points) + 1)
            => LET new == points'[Len(points')]
                   start == Find(points, staking.baselineStartId)
                   end == Find(points, staking.baselineEndId)
               IN  /\ new.type = "INTERMEDIATE"
                   /\ new.isSnapped
                   /\ ~isNaN(new.lat) /\ ~isNaN(new.lng)
                   /\ Between(start.lat, new.lat, end.lat)
                   /\ Between(start.lng, new.lng, end.lng)]_vars

\* C5: marker selections made while staking cycle through three steps: no
\* start -> the id becomes the start; start and no end -> the id becomes the
\* end and bearing and distance of the baseline are cached; both set -> the
\* id becomes the start and end, bearing and distance are cleared. Stated on
\* what setBaseline returns for every marker of every reachable state, since
\* a selection that changes nothing is a stuttering step.
C5_BaselineSelectionCycle ==
    (Mounted /\ staking.isActive) =>
        \A id \in Ids(points) :
            LET selected == setBaseline(points, staking, id)
            IN  IF staking.baselineStartId = Null
                THEN selected.baselineStartId = id
                ELSE IF staking.baselineEndId = Null
                THEN /\ selected.baselineStartId = staking.baselineStartId
                     /\ selected.baselineEndId = id
                     /\ selected.baselineBearing # Null
                     /\ selected.baselineDistance # Null
                ELSE /\ selected.baselineStartId = id
                     /\ selected.baselineEndId = Null
                     /\ selected.baselineBearing = Null
                     /\ selected.baselineDistance = Null

TargetAndBaselineReset(st) ==
    /\ st.targetBearing = Null
    /\ st.baselineStartId = Null
    /\ st.baselineEndId = Null
    /\ st.baselineBearing = Null
    /\ st.baselineDistance = Null

\* C6: when staking is switched off (toggle or panel close) or the baseline
\* is cleared, the target and baseline fields of the session are reset.
C6_ToggleOffResetsSession ==
    [][/\ (staking.isActive /\ ~staking'.isActive) => TargetAndBaselineReset(staking')
       /\ clearBaseline =>
             /\ staking'.baselineStartId = Null
             /\ staking'.baselineEndId = Null
             /\ staking'.baselineBearing = Null
             /\ staking'.baselineDistance = Null]_vars

\* The session holds the id of a point that is no longer in the sequence.
BaselineDangling(pts, st) ==
    \/ st.baselineStartId # Null /\ st.baselineStartId \notin Ids(pts)
    \/ st.baselineEndId # Null /\ st.baselineEndId \notin Ids(pts)

\* C7: a baseline id whose point is gone is treated as a cleared baseline:
\* nothing fails on the missing point, the next selection starts a fresh
\* baseline, and an add is not snapped.
C7_DanglingBaselineTolerated ==
    /\ ~RenderThrows(points, staking)
    /\ (staking.isActive /\ BaselineDangling(points, staking)) =>
          \A id \in Ids(points) :
              LET selected == setBaseline(points, staking, id)
              IN  /\ selected.baselineStartId = id
                  /\ selected.baselineEndId = Null
    /\ BaselineDangling(points, staking) =>
          \A pos \in Fixes :
              LET added == addPointToSurvey(points, staking,
                                            NewPoint(nextId + 1, pos, "GPS")).points
              IN  Len(added) = Len(points) + 1 => ~added[Len(added)].isSnapped

\* distance and bearing of every point are those of the segment from its
\* predecessor, and 0 for the first point.
DerivedConsistent(pts) ==
    \A i \in 1..Len(pts) :
        IF i = 1 THEN pts[i].distance = 0 /\ pts[i].bearing = 0
        ELSE /\ pts[i].distance =
                   calculateDistance(pts[i-1].lat, pts[i-1].lng, pts[i].lat, pts[i].lng)
             /\ pts[i].bearing =
                   calculateBearing(pts[i-1].lat, pts[i-1].lng, pts[i].lat, pts[i].lng)

\* C8: after every mutation of the sequence the derived fields are
\* consistent for the whole sequence.
C8_DerivedFieldsConsistent == DerivedConsistent(points)

\* C9: a corner turn with a currentBearing stores (currentBearing -/+ angle)
\* modulo 360, a value in [0, 360), and changes nothing else; without a
\* currentBearing it changes nothing.
C9_CornerTurn ==
    [][\A direction \in {"Left", "Right"}, angle \in TurnAngles :
         handleTurn(direction, angle)
            => /\ points' = points
               /\ IF staking.currentBearing = Null THEN staking' = staking
                  ELSE /\ staking'.currentBearing =
                             (IF direction = "Left" THEN staking.currentBearing - angle
                              ELSE staking.currentBearing + angle) % 360
                       /\ staking'.currentBearing \in 0..359
                       /\ staking' = [staking EXCEPT
                                        !.currentBearing = staking'.currentBearing]]_vars

\* A session turned left off a first segment of bearing 45: the stored
\* bearing was wrapped from below 0.
C9_Witness ==
    /\ staking.isActive
    /\ Len(points) = 2
    /\ points[2].bearing = 45
    /\ staking.currentBearing = 315

\* (actual - target) taken into (-180, 180].
HalfOpenDiff(actual, target) == ((actual - target + 179) % 360) - 179

\* C10: calculateCollinearity returns the magnitude of d and Right exactly
\* when d > 0, d being actual - target taken into (-180, 180].
C10_DirectionFromHalfOpenDiff ==
    fn.name = "calculateCollinearity"
       => LET d == HalfOpenDiff(fn.actual, fn.target)
          IN  /\ fn.result.error = Abs(d)
              /\ (fn.result.direction = "Right") <=> (d > 0)


\* C11: for the same origin, target bearing and fix, calculateCrossTrackError
\* reports the direction calculateCollinearity reports, and computing it
\* changes neither the point sequences nor the staking sessions.
C11_CrossTrackDirectionAgrees ==
    [][\A start \in Grid, target \in Targets, current \in Grid :
         applyCrossTrackError(start, target, current)
            => /\ fn'.result.direction = fn'.collinearity.direction
               /\ UNCHANGED <<points, staking, surveyPoints, stakingState>>]_vars


\* C12: no geometry result that is NaN is stored: no point of the sequence
\* has a NaN latitude or longitude, and no stored distance, bearing or
\* collinearity error is NaN.
C12_NoNaNStored ==
    \A i \in 1..Len(points) :
        /\ ~isNaN(points[i].lat) /\ ~isNaN(points[i].lng)
        /\ ~isNaN(points[i].distance) /\ ~isNaN(points[i].bearing)
        /\ ~isNaN(points[i].collinearityError)


\* A point in the sense of the data model: neither coordinate NaN, latitude
\* in [-90, 90], longitude in [-180, 180].
InRange(p) ==
    /\ ~isNaN(p.lat) /\ ~isNaN(p.lng)
    /\ -90 <= p.lat /\ p.lat <= 90
    /\ -180 <= p.lng /\ p.lng <= 180

ValidOnly(pts) == SelectSeq(pts, InRange)

\* C13: calculateArea and calculatePerimeter return what they return for the
\* list without its invalid points (NaN or out of range), and the area is 0
\* when fewer than 3 valid points remain.
C13_InvalidPointsExcluded ==
    /\ fn.name = "calculateArea" =>
          /\ fn.result = calculateArea(ValidOnly(fn.points), fn.proj4)
          /\ Len(ValidOnly(fn.points)) < 3 => fn.result = 0
    /\ fn.name = "calculatePerimeter" =>
          fn.result = calculatePerimeter(ValidOnly(fn.points))


\* C14: when the projection of a point of the polygon fails inside
\* latLngToUtm, calculateArea computes the whole area on the fallback path.
C14_FailedProjectionFallsBack ==
    (/\ fn.name = "calculateArea"
     /\ fn.proj4.defined
     /\ Len(validPoints(fn.points)) >= 3
     /\ \E i \in 1..Len(fn.points) : <<fn.points[i].lat, fn.points[i].lng>> \in fn.proj4.fails)
        => fn.result = AreaFallback(validPoints(fn.points))


\* The length of the open path through a list of points.
RECURSIVE PathLength(_)
PathLength(v) ==
    IF Len(v) < 2 THEN 0
    ELSE calculateDistance(v[1].lat, v[1].lng, v[2].lat, v[2].lng) + PathLength(Tail(v))

\* C15: calculatePerimeter is, over the valid points in order, the sum of
\* the distances between neighbours, plus the closing edge exactly when
\* more than 2 valid points remain; 0 for fewer than 2.
C15_PerimeterOfValidPoints ==
    fn.name = "calculatePerimeter" =>
        LET v == ValidOnly(fn.points)
            n == Len(v)
        IN  fn.result =
               IF n < 2 THEN 0
               ELSE IF n = 2 THEN PathLength(v)
               ELSE PathLength(v)
                    + calculateDistance(v[n].lat, v[n].lng, v[1].lat, v[1].lng)

\* The same statement over the points the function keeps (neither
\* coordinate NaN): it holds.
PerimeterOfKeptPoints ==
    fn.name = "calculatePerimeter" =>
        LET v == validPoints(fn.points)
            n == Len(v)
        IN  fn.result =
               IF n < 2 THEN 0
               ELSE IF n = 2 THEN PathLength(v)
               ELSE PathLength(v)
                    + calculateDistance(v[n].lat, v[n].lng, v[1].lat, v[1].lng)


\* The sum of the accuracies a window holds, a missing accuracy adding
\* nothing.
KnownAccuracySum(samples) ==
    SumTo([i \in 1..Len(samples) |->
             IF samples[i].accuracy = Undefined THEN 0 ELSE samples[i].accuracy],
          Len(samples))

AllAccuraciesKnown(samples) == \A i \in 1..Len(samples) : samples[i].accuracy # Undefined

\* C16: an averaged point whose mean accuracy exceeds the threshold enters
\* the sequence only if the user accepts it, a window with a missing
\* accuracy included; the accuracy stored is the unweighted mean of the
\* sample accuracies.
C16_LowAccuracyNeedsConsent ==
    [][\A proceed \in BOOLEAN :
         (finishGPSWindow(proceed) /\ gpsAveraging.samples # <<>>)
            => LET samples == gpsAveraging.samples
               IN  /\ (KnownAccuracySum(samples) > gpsThreshold * Len(samples) /\ ~proceed)
                         => points' = points
                   /\ (AllAccuraciesKnown(samples) /\ Len(points') = Len(points) + 1)
                         => points'[Len(points')].accuracy
                               = RoundDiv(KnownAccuracySum(samples), Len(samples))]_vars


\* The weight of a sample as stated: 1 / accuracy^2, and 1 for an accuracy
\* that is 0 or missing (in units of 1 / WeightScale).
StatedWeight(accuracy) ==
    IF accuracy = 0 \/ accuracy = Undefined THEN WeightScale
    ELSE WeightScale \div (accuracy * accuracy)

\* The weighted mean of the values v[1..n] of a window.
StatedMean(samples, v) ==
    RoundDiv(SumTo([i \in 1..Len(samples) |-> v[i] * StatedWeight(samples[i].accuracy)],
                   Len(samples)),
             SumTo([i \in 1..Len(samples) |-> StatedWeight(samples[i].accuracy)],
                   Len(samples)))

AllAltitudesKnown(samples) == \A i \in 1..Len(samples) : samples[i].altitude # Undefined

C18_StopEarly ==
    [][\A proceed \in BOOLEAN :
         finishGPSWindow(proceed)
            => LET samples == gpsAveraging.samples
                   n == Len(samples)
               IN  /\ gpsAveraging' = [active |-> FALSE, timeLeft |-> 0, samples |-> <<>>]
                   /\ n = 0 => (points' = points /\ staking' = staking /\ signal' = "alert")
                   /\ points' # points =>
                         /\ n > 0
                         /\ SubSeq(points', 1, Len(points)) = points
                         /\ Len(points') = Len(points) + 1
                         /\ LET new == points'[Len(points')]
                            IN  /\ new.lat \notin {NaN, Undefined}
                                /\ new.lng \notin {NaN, Undefined}
                                /\ new.lat = StatedMean(samples, [i \in 1..n |-> samples[i].lat])
                                /\ new.lng = StatedMean(samples, [i \in 1..n |-> samples[i].lng])]_vars

\* An empty window was stopped while the sequence held a point.
C18_Witness ==
    /\ signal = "alert"
    /\ ~gpsAveraging.active
    /\ Len(points) >= 1


\* The projection parameter t of a fix on a baseline, as the pair of its
\* numerator and denominator.
SnapDot(start, end, p) == (p[1] - start[1]) * (end[1] - start[1]) + (p[2] - start[2]) * (end[2] - start[2])
SnapLen2(start, end) == (end[1] - start[1]) * (end[1] - start[1]) + (end[2] - start[2]) * (end[2] - start[2])

\* C19: on a baseline of non-zero length snapToBaseline returns the start
\* for t < 0, the end for t > 1 and the midpoint for the midpoint, and
\* snapping what it returned returns the same point.
C19_SnapClampsAndIsIdempotent ==
    (fn.name = "snapToBaseline" /\ fn.start # fn.end)
       => LET dot == SnapDot(fn.start, fn.end, fn.p)
              len2 == SnapLen2(fn.start, fn.end)
          IN  /\ dot < 0 => fn.result = [lat |-> fn.start[1], lng |-> fn.start[2]]
              /\ dot > len2 => fn.result = [lat |-> fn.end[1], lng |-> fn.end[2]]
              /\ (2 * fn.p[1] = fn.start[1] + fn.end[1] /\ 2 * fn.p[2] = fn.start[2] + fn.end[2])
                    => fn.result = [lat |-> fn.p[1], lng |-> fn.p[2]]
              /\ fn.again = fn.result


\* The list started at its second vertex, and the list backwards.
Rotate(pts) == IF Len(pts) = 0 THEN pts ELSE Tail(pts) \o <<Head(pts)>>
Reverse(pts) == [i \in 1..Len(pts) |-> pts[Len(pts) + 1 - i]]

\* C20: on a list of valid points calculateArea and calculatePerimeter
\* return the same value for the list started at another vertex, and
\* calculateArea returns the same value for the list backwards.
C20_RotationAndReversalInvariant ==
    /\ (fn.name = "calculateArea" /\ ValidOnly(fn.points) = fn.points)
          => /\ calculateArea(Rotate(fn.points), fn.proj4) = fn.result
             /\ calculateArea(Reverse(fn.points), fn.proj4) = fn.result
    /\ (fn.name = "calculatePerimeter" /\ ValidOnly(fn.points) = fn.points)
          => calculatePerimeter(Rotate(fn.points)) = fn.result


\* C21: for every angle x, normalizeAngle(x) lies in [0, 360), differs from
\* x by a multiple of 360, and normalizeAngle applied to it returns it.
C21_NormalizeAngleCanonical ==
    fn.name = "normalizeAngle"
       => /\ 0 <= fn.result /\ fn.result < 360 * UnitsPerDegree
          /\ (fn.result - fn.angle) % (360 * UnitsPerDegree) = 0
          /\ fn.again = fn.result


\* C22: the session's targetBearing is null or an angle in [0, 360), and
\* flipping it twice gives it back.
C22_TargetBearingInRange ==
    stakingState.targetBearing # Null
       => /\ stakingState.targetBearing >= 0
          /\ stakingState.targetBearing < 360
          /\ FlippedBearing(FlippedBearing(stakingState.targetBearing))
                = stakingState.targetBearing


\* C23: the session has a currentBearing (Tracking) only while the point
\* sequence holds at least 2 points.
C23_TrackingNeedsTwoPoints ==
    staking.currentBearing # Null => Len(points) >= 2


\* The ids of a point sequence, in order.
PointIds(pts) == [i \in 1..Len(pts) |-> pts[i].id]

\* C24: an add event (Add GPS Point, manual map click) on the current
\* survey appends its point to the sequence the previous event left: every
\* point added before is still there, once and in event order, also when
\* the Sync Refs effect has not run since the previous add.
C24_NoAddLost ==
    [][\A pos \in ClickPositions :
         ((handleMapClick(pos) \/ addGpsPointToSurvey(pos))
             /\ surveyRef # NullObject /\ surveyRef.id = currentSurveyId)
            => PointIds(CurrentPoints') = Append(PointIds(CurrentPoints), appNextId + 1)]_vars


\* C25: the cached baselineBearing and baselineDistance are non-null
\* exactly when baselineEndId is non-null.
C25_BaselineCacheMatchesEnd ==
    IF staking.baselineEndId # Null
    THEN staking.baselineBearing # Null /\ staking.baselineDistance # Null
    ELSE staking.baselineBearing = Null /\ staking.baselineDistance = Null

\* C26: baselineEndId is non-null only if baselineStartId is non-null, and
\* a step that sets baselineEndId sets it to the id of a point of the
\* sequence, with baselineStartId already set.
C26_EndOnlyAfterStart ==
    [][/\ staking'.baselineEndId # Null => staking'.baselineStartId # Null
       /\ (staking'.baselineEndId # staking.baselineEndId /\ staking'.baselineEndId # Null)
             => /\ staking'.baselineEndId \in Ids(points)
                /\ staking.baselineStartId # Null
                /\ staking'.baselineStartId = staking.baselineStartId]_vars

\* A baseline with both ends set.
C26_Witness ==
    /\ staking.baselineStartId # Null
    /\ staking.baselineEndId # Null
    /\ staking.baselineEndId \in Ids(points)


\* C27: deleting the active point records the point and its place, and
\* undo, applied to the sequence the delete left, puts the point back at
\* that place: the same points in the same order, distance and bearing
\* derived anew.  Undo while a different survey is current changes no
\* survey.
C27_UndoRestoresDeletedPoint ==
    [][/\ handleDeleteActivePoint
            => LET before == CurrentPoints
                   after == CurrentPoints'
                   h == deletionHistory'
               IN  /\ h.surveyId = currentSurveyId
                   /\ h.point.id = activePointId
                   /\ PointIds(after) = PointIds(Without(before, activePointId))
                   /\ recalculateGeometry(Splice(after, h.index, h.point)) = before
       /\ handleUndoDelete
            => IF deletionHistory.surveyId # currentSurveyId
               THEN surveys' = surveys /\ deletionHistory' = deletionHistory
               ELSE /\ CurrentPoints' = recalculateGeometry(
                                           Splice(CurrentPoints, deletionHistory.index,
                                                  deletionHistory.point))
                    /\ \A i \in 1..Len(surveys) :
                          surveys[i].id # currentSurveyId => surveys'[i] = surveys[i]
                    /\ deletionHistory' = NullObject]_vars


\* C28: after create, confirmed delete, select, import and conflict
\* resolution the survey list is non-empty and currentSurveyId is the id
\* of a survey in the list.
C28_CurrentSurveyInList ==
    /\ Len(surveys) > 0
    /\ currentSurveyId \in SurveyIds(surveys)


\* C30: for a latitude in [-90,90] and a longitude in [-180,180], with the
\* projection available, latLngToUtm returns a zone in 1..60 that equals
\* floor((lng+180)/6)+1, and hemisphere N exactly when the latitude is >= 0.
C30_UtmZoneAndHemisphere ==
    fn.name = "latLngToUtm"
        => /\ fn.result.zone \in 1..60
           /\ fn.result.zone = ((fn.lng + 180) \div 6) + 1
           /\ (fn.result.hemi = "N") <=> (fn.lat >= 0)


\* C29: a window starts with 20 seconds and loses one at every tick while
\* it is active; finishing it, at 0 or by Stop Early, leaves the averaging
\* state inactive with no samples; the state holds no samples while it is
\* inactive, and a sample is appended only while the window is active.
C29_WindowEndsEmpty ==
    [][/\ (~gpsAveraging.active /\ gpsAveraging'.active)
             => gpsAveraging' = [active |-> TRUE, timeLeft |-> 20, samples |-> <<>>]
       /\ (timerFires /\ gpsAveraging.active)
             => /\ gpsAveraging.timeLeft > 0
                /\ gpsAveraging' = [gpsAveraging EXCEPT !.timeLeft = @ - 1]
       /\ (gpsAveraging.active /\ ~gpsAveraging'.active)
             => /\ GpsEffectsFlushed \/ gpsAveraging.timeLeft = 0
                /\ gpsAveraging' = [active |-> FALSE, timeLeft |-> 0, samples |-> <<>>]
       /\ ~gpsAveraging'.active => gpsAveraging'.samples = <<>>
       /\ (gpsAveraging'.samples # gpsAveraging.samples /\ gpsAveraging'.samples # <<>>)
             => gpsAveraging.active]_vars

====
